---- MODULE Spec2Model ----
(***************************************************************************)
(* A model of the metrics aggregation and caching engine of                *)
(* youtube_analytics_pipeline:                                             *)
(*   - RedisCache        (src/src/storage/redis_cache.py)                  *)
(*   - MetricsService    (src/src/serving/metrics_service.py)              *)
(*   - the two rollups   (src/src/processing/batch_processor.py and        *)
(*                        src/src/storage/bigquery_handler.py)             *)
(* Time is counted in seconds.  The Redis backend is modelled by what its  *)
(* commands do: HMSET merges fields, EXPIRE sets an absolute deadline,     *)
(* HINCRBY adds to an integer field and creates key and field when absent, *)
(* a key past its deadline is gone.                                        *)
(***************************************************************************)
EXTENDS Integers, Sequences, FiniteSets, TLC

VARIABLES
    now,        \* the clock, in seconds
    store,      \* the Redis keyspace: key -> [h: field -> string, ttl: has a deadline, exp: the deadline]
    redisUp,    \* TRUE while the Redis backend answers; every command raises while FALSE
    bigquery,   \* MetricsService.bigquery: TRUE when a durable-store handler was injected
    last,       \* the call that produced the current state, with its inputs and its outcome
    hist,       \* per video: the latest successful write to its cache entry
    rawEvents,  \* the raw events table of the durable store
    aggTable,   \* the aggregate table of the durable store: a sequence of rows, in insertion order
    run,        \* the rollup run that produced the current state
    procs       \* the callers in flight: caller -> its position and its locals

vars == <<now, store, redisUp, bigquery, last, hist, rawEvents, aggTable, run, procs>>
cacheVars == <<now, store, redisUp, bigquery, last, hist>>
rollupVars == <<rawEvents, aggTable, run>>

----------------------------------------------------------------------------
(* Bounds of the model *)

\* the clock advances at most MaxTicks times
MaxTicks == 2
\* increments stop once a counter would pass MaxCount
MaxCount == 3

(* Program constants *)

\* RedisCache.__init__: ttl: int = 3600
default_ttl == 3600

Videos == {"v1"}

----------------------------------------------------------------------------
(* Python values and their string forms *)

PyInt(n) == [t |-> "int", num |-> n, den |-> 1]
PyFloat(n, d) == [t |-> "float", num |-> n, den |-> d]

\* Python's None, as a record every result can be compared with
None == [None |-> PyInt(0)]

\* str(v): an int prints as digits, a float always with a decimal point
PyStr(v) == [lit |-> IF v.t = "int" THEN "intlit" ELSE "floatlit", num |-> v.num, den |-> v.den]

\* int(b) accepts digits only; on "4.0" it raises ValueError
IntParses(s) == s.lit = "intlit"
ParseInt(s) == PyInt(s.num)
\* float(b) accepts both forms
ParseFloat(s) == PyFloat(s.num, s.den)

IntFields == {"views", "likes", "unique_users", "countries_reached"}
FloatFields == {"watch_time", "engagement_rate", "avg_watch_time"}
RecordFields == IntFields \cup FloatFields

----------------------------------------------------------------------------
(* Inputs *)

RecA == [views |-> PyInt(2), likes |-> PyInt(1), watch_time |-> PyFloat(4, 1),
         unique_users |-> PyInt(2), countries_reached |-> PyInt(1),
         engagement_rate |-> PyFloat(1, 2), avg_watch_time |-> PyFloat(2, 1)]
RecB == [views |-> PyInt(0), likes |-> PyInt(0), watch_time |-> PyFloat(0, 1),
         unique_users |-> PyInt(0), countries_reached |-> PyInt(0),
         engagement_rate |-> PyFloat(0, 1), avg_watch_time |-> PyFloat(0, 1)]
\* a caller of update_metrics may pass any dict: one that names a single field
RecPartial == [views |-> PyInt(1)]

FullRecords == {RecA, RecB}
RecordInputs == FullRecords \cup {RecPartial}

\* ttl: Optional[int]
NoTtlArg == [given |-> FALSE, n |-> 0]
TtlArg(n) == [given |-> TRUE, n |-> n]
TtlInputs == {NoTtlArg, TtlArg(0), TtlArg(2)}

\* metrics: Dict[str, int] of increment_metrics
DeltaInputs == {[views |-> 1], [views |-> 1, watch_time |-> 1]}

----------------------------------------------------------------------------
(* RedisCache *)

\* _get_key: the prefix 'yt:' before the key; a key is kept as its ':'-separated parts
get_key(parts) == <<"yt">> \o parts
MetricsKey(v) == get_key(<<"video", v, "metrics">>)

Drop(st, key) == [k \in (DOMAIN st) \ {key} |-> st[k]]
Put(st, key, e) == [k \in (DOMAIN st) \cup {key} |-> IF k = key THEN e ELSE st[k]]

\* HMSET key mapping: the fields of the mapping are written, every other field of
\* an existing hash stays; an existing deadline stays
hmset(st, key, mapping) ==
    IF key \in DOMAIN st
    THEN Put(st, key, [st[key] EXCEPT !.h =
            [f \in (DOMAIN st[key].h) \cup (DOMAIN mapping) |->
                IF f \in DOMAIN mapping THEN mapping[f] ELSE st[key].h[f]]])
    ELSE Put(st, key, [h |-> mapping, ttl |-> FALSE, exp |-> 0])

\* EXPIRE key seconds: the deadline becomes now + seconds; a deadline that is not
\* in the future deletes the key
expire(st, t, key, seconds) ==
    IF key \notin DOMAIN st THEN st
    ELSE IF seconds <= 0 THEN Drop(st, key)
    ELSE Put(st, key, [st[key] EXCEPT !.ttl = TRUE, !.exp = t + seconds])

\* ttl or self.default_ttl
EffectiveTtl(ttl) == IF ttl.given /\ ttl.n # 0 THEN ttl.n ELSE default_ttl

\* a set_video_metrics whose pipeline is never executed
set_video_metrics_store_unexecuted(st, t, v, metrics, ttl) == st

\* the keyspace after set_video_metrics's pipeline has executed
set_video_metrics_store(st, t, v, metrics, ttl) ==
    LET key == MetricsKey(v)
        metrics_str == [k \in DOMAIN metrics |-> PyStr(metrics[k])]
    IN expire(hmset(st, key, metrics_str), t, key, EffectiveTtl(ttl))

\* what get_video_metrics returns
get_video_metrics_result(st, up, v) ==
    LET key == MetricsKey(v) IN
    IF ~up THEN None                          \* except Exception: return None
    ELSE IF key \notin DOMAIN st THEN None    \* if not metrics: return None
    ELSE LET metrics == st[key].h IN
         IF \E f \in IntFields \cap DOMAIN metrics : ~IntParses(metrics[f])
         THEN None                            \* ValueError, caught: return None
         ELSE [f \in RecordFields |->
                 IF f \in DOMAIN metrics
                 THEN IF f \in IntFields THEN ParseInt(metrics[f]) ELSE ParseFloat(metrics[f])
                 ELSE IF f \in IntFields THEN PyInt(0) ELSE PyFloat(0, 1)]

\* HINCRBY key field value on one field: an error when the field does not hold an integer
HincrbyFails(st, key, field) ==
    key \in DOMAIN st /\ field \in DOMAIN st[key].h /\ ~IntParses(st[key].h[field])

hincrby_field(h, field, value) ==
    IF field \in DOMAIN h
    THEN IF IntParses(h[field]) THEN [h[field] EXCEPT !.num = @ + value] ELSE h[field]
    ELSE PyStr(PyInt(value))

\* the keyspace after increment_metrics's pipeline has executed: inside MULTI/EXEC
\* every HINCRBY that can be applied is applied, a failing one changes nothing
increment_metrics_store(st, v, metrics) ==
    LET key == MetricsKey(v)
        old == IF key \in DOMAIN st THEN st[key].h ELSE << >>
        new == [f \in (DOMAIN old) \cup (DOMAIN metrics) |->
                  IF f \in DOMAIN metrics THEN hincrby_field(old, f, metrics[f]) ELSE old[f]]
    IN IF key \in DOMAIN st
       THEN Put(st, key, [st[key] EXCEPT !.h = new])
       ELSE Put(st, key, [h |-> new, ttl |-> FALSE, exp |-> 0])

NoCall == [op |-> "none", video |-> "v1", rec |-> None, ttl |-> NoTtlArg, deltas |-> << >>,
           args |-> << >>,
           up |-> TRUE, pre |-> << >>, at |-> 0, ret |-> None, ok |-> TRUE,
           status |-> "none", durable |-> "none", queried |-> FALSE, wrote |-> FALSE]

NoWrite == [kind |-> "none", rec |-> None, ttl |-> NoTtlArg, at |-> 0]

Call(op, v) == [NoCall EXCEPT !.op = op, !.video = v, !.up = redisUp, !.pre = store, !.at = now]

\* RedisCache.set_video_metrics
set_video_metrics(v, metrics, ttl) ==
    /\ IF redisUp
       THEN /\ store' = set_video_metrics_store(store, now, v, metrics, ttl)
            /\ hist' = [hist EXCEPT ![v] = [kind |-> "set", rec |-> metrics, ttl |-> ttl, at |-> now]]
       ELSE UNCHANGED <<store, hist>>
    /\ last' = [Call("set", v) EXCEPT !.rec = metrics, !.ttl = ttl, !.ok = redisUp]
    /\ UNCHANGED <<now, redisUp, bigquery, rawEvents, aggTable, run, procs>>

\* RedisCache.get_video_metrics
get_video_metrics(v) ==
    /\ last' = [Call("get", v) EXCEPT !.ret = get_video_metrics_result(store, redisUp, v)]
    /\ UNCHANGED <<now, store, redisUp, bigquery, hist, rawEvents, aggTable, run, procs>>

\* RedisCache.increment_metrics
increment_metrics(v, metrics) ==
    LET key == MetricsKey(v)
        after == increment_metrics_store(store, v, metrics)
    IN
    /\ \A f \in DOMAIN metrics : ~HincrbyFails(store, key, f) => after[key].h[f].num <= MaxCount
    /\ IF redisUp
       THEN /\ store' = after
            /\ hist' = [hist EXCEPT ![v] =
                  [kind |-> IF key \in DOMAIN store THEN "incr" ELSE "incr_new",
                   rec |-> None, ttl |-> NoTtlArg, at |-> now]]
       ELSE UNCHANGED <<store, hist>>
    /\ last' = [Call("incr", v) EXCEPT !.deltas = metrics,
                  !.ok = redisUp /\ \A f \in DOMAIN metrics : ~HincrbyFails(store, key, f)]
    /\ UNCHANGED <<now, redisUp, bigquery, rawEvents, aggTable, run, procs>>

----------------------------------------------------------------------------
(* MetricsService *)

\* self.bigquery.get_video_metrics(video_id, start_time, end_time, table) over the
\* trailing five minutes: a Metrics Record computed from the rows, nothing when
\* there are no rows, or a failure of the durable store
DurableOutcomes ==
    {[kind |-> "rows", rec |-> r] : r \in FullRecords}
        \cup {[kind |-> "empty", rec |-> None], [kind |-> "raise", rec |-> None]}

\* an except clause that lets the exception through
except_Exception_reraise(raised) == raised

\* except Exception as e: raise HTTPException(status_code=500, ...).  The clause
\* catches whatever the body raised, the body's own HTTPException(404) included
except_Exception(raised) == "500"

\* a resolver that never takes the cached record
Truthy_never(metrics) == FALSE

\* if metrics: a result of RedisCache.get_video_metrics is None or a dict of seven keys
Truthy(metrics) == metrics # None

\* MetricsService.get_video_metrics
MetricsService_get_video_metrics(v, dur) ==
    LET metrics == get_video_metrics_result(store, redisUp, v)
        call == [Call("svc_get", v) EXCEPT !.durable = dur.kind]
    IN
    /\ UNCHANGED <<now, redisUp, bigquery, rawEvents, aggTable, run, procs>>
    /\ IF Truthy(metrics)
       THEN \* if metrics: return metrics
            /\ last' = [call EXCEPT !.ret = metrics, !.status = "ok", !.durable = "none"]
            /\ UNCHANGED <<store, hist>>
       ELSE IF bigquery /\ dur.kind = "rows"
       THEN \* self.redis.set_video_metrics(video_id, metrics); return metrics
            /\ IF redisUp
               THEN /\ store' = set_video_metrics_store(store, now, v, dur.rec, NoTtlArg)
                    /\ hist' = [hist EXCEPT ![v] =
                          [kind |-> "set", rec |-> dur.rec, ttl |-> NoTtlArg, at |-> now]]
               ELSE UNCHANGED <<store, hist>>
            /\ last' = [call EXCEPT !.ret = dur.rec, !.status = "ok", !.rec = dur.rec,
                          !.queried = TRUE, !.wrote = TRUE]
       ELSE IF bigquery /\ dur.kind = "raise"
       THEN \* the durable store's exception reaches the except clause
            /\ last' = [call EXCEPT !.status = except_Exception("error"), !.queried = TRUE]
            /\ UNCHANGED <<store, hist>>
       ELSE \* raise HTTPException(status_code=404, ...), inside the try
            /\ last' = [call EXCEPT !.status = except_Exception("404"), !.queried = bigquery,
                          !.durable = IF bigquery THEN dur.kind ELSE "none"]
            /\ UNCHANGED <<store, hist>>

----------------------------------------------------------------------------
(* The environment of the cache: the clock and the backend's health *)

Purge(st, t) == [k \in {x \in DOMAIN st : ~st[x].ttl \/ st[x].exp > t} |-> st[k]]

TickSteps == {1, default_ttl}

Tick(d) ==
    /\ (now % default_ttl) + (now \div default_ttl) < MaxTicks
    /\ now' = now + d
    /\ store' = Purge(store, now + d)
    /\ last' = Call("tick", "v1")
    /\ UNCHANGED <<redisUp, bigquery, hist, rawEvents, aggTable, run, procs>>

BackendDown ==
    /\ redisUp
    /\ redisUp' = FALSE
    /\ last' = Call("down", "v1")
    /\ UNCHANGED <<now, store, bigquery, hist, rawEvents, aggTable, run, procs>>

BackendUp ==
    /\ ~redisUp
    /\ redisUp' = TRUE
    /\ last' = Call("up", "v1")
    /\ UNCHANGED <<now, store, bigquery, hist, rawEvents, aggTable, run, procs>>

----------------------------------------------------------------------------
(* The durable store and the two rollups *)

\* timedelta(hours=1), in seconds
HourSecs == 3600

\* the raw table holds at most MaxEvents events
MaxEvents == 2
\* at most MaxRuns rollup runs are followed
MaxRuns == 2

RollupVideos == {"v1", "v2"}
\* the order in which a result set lists its groups
VideoOrder == <<"v1", "v2">>

Event(v, ts, type, user, wt, country) ==
    [video_id |-> v, event_timestamp |-> ts, event_type |-> type, user_id |-> user,
     watch_time |-> wt, country_code |-> country,
     device_type |-> "mobile", playback_quality |-> "hd"]

EventInputs ==
    {Event("v1", 3600, "view", "u1", 4, "US"),
     Event("v1", 5400, "like", "u1", 0, "US"),
     Event("v1", 5400, "view", "u2", 2, "IN"),
     Event("v2", 5400, "view", "u1", 6, "US")}

RawTables == UNION {[1..n -> EventInputs] : n \in 0..MaxEvents}

\* the timestamps a rollup is run for
BatchTimes == {3600, 5400, 7200}

RECURSIVE SumWatchTime(_)
SumWatchTime(evs) ==
    IF evs = << >> THEN 0 ELSE Head(evs).watch_time + SumWatchTime(Tail(evs))

OfVideo(evs, v) == SelectSeq(evs, LAMBDA e : e.video_id = v)
OfType(evs, type) == SelectSeq(evs, LAMBDA e : e.event_type = type)
Range(f) == {f[i] : i \in DOMAIN f}
Distinct(evs, field) == Cardinality({e[field] : e \in Range(evs)})
\* Series.value_counts().to_dict()
ValueCounts(evs, field) ==
    [x \in {e[field] : e \in Range(evs)} |-> Len(SelectSeq(evs, LAMBDA e : e[field] = x))]

\* the videos that have a group in a selection, in result order
Groups(evs) == SelectSeq(VideoOrder, LAMBDA v : OfVideo(evs, v) # << >>)

\* the WHERE clause of process_hourly_aggregation: hour_start <= t < hour_end
HourlySelection(raw, hour_start, hour_end) ==
    SelectSeq(raw, LAMBDA e : e.event_timestamp >= hour_start /\ e.event_timestamp < hour_end)

\* one row of process_hourly_aggregation's GROUP BY video_id
HourlyQueryRow(group) ==
    [unique_views |-> Distinct(OfType(group, "view"), "user_id"),
     likes |-> Len(OfType(group, "like")),
     total_watch_time |-> SumWatchTime(OfType(group, "view")),
     unique_users |-> Distinct(group, "user_id"),
     countries_reached |-> Distinct(group, "country_code")]

\* BatchProcessor._process_aggregation_results, for one row
process_aggregation_results(row) ==
    [unique_views |-> PyInt(row.unique_views),
     likes |-> PyInt(row.likes),
     total_watch_time |-> PyFloat(row.total_watch_time, 1),
     unique_users |-> PyInt(row.unique_users),
     countries_reached |-> PyInt(row.countries_reached),
     engagement_rate |-> IF row.unique_views > 0
                         THEN PyFloat(row.likes, row.unique_views) ELSE PyInt(0),
     avg_watch_time |-> IF row.unique_views > 0
                        THEN PyFloat(row.total_watch_time, row.unique_views) ELSE PyInt(0)]

\* the rows save_aggregations builds: video_id, timestamp and the metrics beside them
save_aggregations_rows(evs, hour_start) ==
    [i \in DOMAIN Groups(evs) |->
        [video_id |-> Groups(evs)[i], timestamp |-> hour_start, shape |-> "flat",
         metrics |-> process_aggregation_results(HourlyQueryRow(OfVideo(evs, Groups(evs)[i])))]]

\* the WHERE clause of process_batch: event_timestamp BETWEEN @start_time AND @end_time
BatchSelection(raw, start_time, end_time) ==
    SelectSeq(raw, LAMBDA e : e.event_timestamp >= start_time /\ e.event_timestamp <= end_time)

\* BatchProcessor._aggregate_metrics (bigquery_handler.py), for one group
aggregate_metrics(group) ==
    LET unique_views == Distinct(OfType(group, "view"), "user_id")
        likes == Len(OfType(group, "like"))
    IN [unique_views |-> PyInt(unique_views),
        likes |-> PyInt(likes),
        total_watch_time |-> PyFloat(SumWatchTime(OfType(group, "view")), 1),
        unique_users |-> PyInt(Distinct(group, "user_id")),
        countries_reached |-> PyInt(Distinct(group, "country_code")),
        device_breakdown |-> ValueCounts(group, "device_type"),
        quality_breakdown |-> ValueCounts(group, "playback_quality"),
        engagement_rate |-> IF unique_views > 0 THEN PyFloat(likes, unique_views) ELSE PyInt(0)]

\* the rows _save_aggregated_metrics builds: video_id, timestamp and a nested metrics dict
save_aggregated_metrics_rows(evs, timestamp) ==
    [i \in DOMAIN Groups(evs) |->
        [video_id |-> Groups(evs)[i], timestamp |-> timestamp, shape |-> "nested",
         metrics |-> aggregate_metrics(OfVideo(evs, Groups(evs)[i]))]]

\* what the durable store may answer to one run
RunOutcomes ==
    {[kind |-> k, rejected |-> {}] : k \in {"ok", "query_raise", "insert_raise"}}
        \cup {[kind |-> "errors", rejected |-> R] :
                 R \in (SUBSET (1..Cardinality(RollupVideos))) \ {{}}}

\* bq_client.insert_rows_json(table, rows): a streaming insert.  It appends the rows
\* the store accepts and returns one error per row it rejects; a transport failure
\* raises and appends nothing
insert_rows_json(table, rows, out) ==
    IF out.kind = "insert_raise" THEN table
    ELSE table \o SelectSeq(rows, LAMBDA r :
                    \E i \in DOMAIN rows : rows[i] = r /\ i \notin out.rejected)

\* if errors: raise Exception(...), and an exception of the call itself
InsertFails(out) == out.kind = "insert_raise" \/ out.rejected # {}

NoRun == [impl |-> "none", ts |-> 0, status |-> "none", rows |-> << >>, before |-> << >>,
          n |-> 0, done |-> {}, doneBefore |-> {}]

RunRecord(impl, ts, rows, failed) ==
    [impl |-> impl, ts |-> ts, status |-> IF failed THEN "failed" ELSE "ok",
     rows |-> rows, before |-> aggTable, n |-> run.n + 1, doneBefore |-> run.done,
     done |-> IF failed THEN run.done ELSE run.done \cup {<<impl, ts>>}]

\* one rollup with batch_processor.py: process_hourly_aggregation, then save_aggregations
hourly_rollup(timestamp, out) ==
    LET hour_start == timestamp - (timestamp % HourSecs)
        hour_end == hour_start + HourSecs
        rows == save_aggregations_rows(HourlySelection(rawEvents, hour_start, hour_end), hour_start)
    IN
    /\ run.n < MaxRuns
    /\ out.rejected \subseteq DOMAIN rows
    /\ IF out.kind = "query_raise"
       THEN /\ aggTable' = aggTable
            /\ run' = RunRecord("hourly", timestamp, << >>, TRUE)
       ELSE /\ aggTable' = insert_rows_json(aggTable, rows, out)
            /\ run' = RunRecord("hourly", timestamp, rows, InsertFails(out))
    /\ UNCHANGED <<rawEvents, now, store, redisUp, bigquery, last, hist, procs>>

\* BatchProcessor.process_batch of bigquery_handler.py: what one call does to the
\* durable store
process_batch_call(batch_timestamp, out) ==
    LET window_start == batch_timestamp - HourSecs
        df == BatchSelection(rawEvents, window_start, batch_timestamp)
        rows == save_aggregated_metrics_rows(df, batch_timestamp)
    IN
    /\ run.n < MaxRuns
    /\ out.rejected \subseteq DOMAIN rows
    /\ IF out.kind = "query_raise"
       THEN /\ aggTable' = aggTable
            /\ run' = RunRecord("batch", batch_timestamp, << >>, TRUE)
       ELSE IF df = << >>
       THEN \* if df.empty: return {}
            /\ out.kind = "ok"
            /\ aggTable' = aggTable
            /\ run' = RunRecord("batch", batch_timestamp, << >>, FALSE)
       ELSE /\ aggTable' = insert_rows_json(aggTable, rows, out)
            /\ run' = RunRecord("batch", batch_timestamp, rows, InsertFails(out))

\* one rollup with bigquery_handler.py: BatchProcessor.process_batch
process_batch(batch_timestamp, out) ==
    /\ process_batch_call(batch_timestamp, out)
    /\ UNCHANGED <<rawEvents, now, store, redisUp, bigquery, last, hist, procs>>

----------------------------------------------------------------------------

InitCache ==
    /\ now = 0
    /\ store = << >>
    /\ redisUp = TRUE
    /\ bigquery \in BOOLEAN
    /\ last = NoCall
    /\ hist = [v \in Videos |-> NoWrite]
    /\ procs = << >>

NoRollup ==
    /\ rawEvents = << >>
    /\ aggTable = << >>
    /\ run = NoRun

Init == InitCache /\ NoRollup

Next ==
    \/ \E v \in Videos, r \in RecordInputs, ttl \in TtlInputs : set_video_metrics(v, r, ttl)
    \/ \E v \in Videos : get_video_metrics(v)
    \/ \E v \in Videos, d \in DeltaInputs : increment_metrics(v, d)
    \/ \E v \in Videos, dur \in DurableOutcomes : MetricsService_get_video_metrics(v, dur)
    \/ \E d \in TickSteps : Tick(d)
    \/ BackendDown
    \/ BackendUp

Spec == Init /\ [][Next]_vars

\* the rollups alone, over every raw table within the bound
RollupInit ==
    /\ InitCache
    /\ bigquery
    /\ rawEvents \in RawTables
    /\ aggTable = << >>
    /\ run = NoRun

RollupNext ==
    \/ \E ts \in BatchTimes, out \in RunOutcomes : hourly_rollup(ts, out)
    \/ \E ts \in BatchTimes, out \in RunOutcomes : process_batch(ts, out)

SpecRollup == RollupInit /\ [][RollupNext]_vars

----------------------------------------------------------------------------
(* The claims about the cache and the resolver *)

CalledKey == MetricsKey(last.video)
MissBefore == get_video_metrics_result(last.pre, last.up, last.video) = None
GetNow(v) == get_video_metrics_result(store, redisUp, v)

\* the ttl a caller asked for: the one passed, the default when none was passed
RequestedTtl(ttl) == IF ttl.given THEN ttl.n ELSE default_ttl

\* a written dict as get_video_metrics reads it back: absent fields read as zero
AsRead(rec) ==
    [f \in RecordFields |->
        IF f \in DOMAIN rec THEN rec[f]
        ELSE IF f \in IntFields THEN PyInt(0) ELSE PyFloat(0, 1)]

C2_NotFoundIs404 ==
    (last.op = "svc_get" /\ MissBefore /\ (~bigquery \/ last.durable = "empty"))
        => last.status = "404"

\* C3: when the cache holds an unexpired entry, get_video_metrics returns the cached
\* record, issues no durable-store query and performs no cache write: the keyspace,
\* entry and expiry included, is as it was.
C3_CacheFresh ==
    (last.op = "svc_get" /\ last.up /\ CalledKey \in DOMAIN last.pre)
        => /\ last.status = "ok"
           /\ last.ret # None
           /\ last.ret = get_video_metrics_result(last.pre, TRUE, last.video)
           /\ ~last.queried
           /\ ~last.wrote
           /\ store = last.pre

C3_Witness ==
    /\ last.op = "svc_get" /\ last.up /\ CalledKey \in DOMAIN last.pre
    /\ bigquery
    /\ last.ret = RecA
    /\ store[CalledKey].ttl

\* C4: the value RedisCache.get_video_metrics returns on a backend failure is never
\* the value an absent entry yields.
C4_FailureIsNotAMiss ==
    (last.op = "get" /\ ~last.up)
        => last.ret # get_video_metrics_result(<< >>, TRUE, last.video)

\* C5: after set_video_metrics(id, record, ttl), a get_video_metrics(id) before ttl
\* has elapsed returns the written record, and one at or after the expiry instant
\* returns None.
C5_TtlRoundTrip ==
    \A v \in Videos :
        (hist[v].kind = "set" /\ redisUp)
            => IF now < hist[v].at + RequestedTtl(hist[v].ttl)
               THEN GetNow(v) = AsRead(hist[v].rec)
               ELSE GetNow(v) = None

\* C6: after set_video_metrics(id, record, ttl) the stored entry holds exactly the
\* fields of record and its expiry is now + ttl, for every ttl passed (an expiry
\* that is not in the future means the entry is gone).
C6_SetOverwrites ==
    (last.op = "set" /\ last.ok)
        => IF RequestedTtl(last.ttl) <= 0
           THEN CalledKey \notin DOMAIN store
           ELSE /\ CalledKey \in DOMAIN store
                /\ store[CalledKey].h = [f \in DOMAIN last.rec |-> PyStr(last.rec[f])]
                /\ store[CalledKey].ttl
                /\ store[CalledKey].exp = last.at + RequestedTtl(last.ttl)

\* the number a stored string stands for, plus d, equals the number of another
ValueIsPlus(new, old, d) == new.num * old.den = (old.num + d * old.den) * new.den

\* C7: increment_metrics on an existing, unexpired entry adds each delta to its
\* named field and leaves every other field and the expiry instant unchanged.
C7_IncrementFrame ==
    (last.op = "incr" /\ last.up /\ CalledKey \in DOMAIN last.pre)
        => /\ CalledKey \in DOMAIN store
           /\ LET old == last.pre[CalledKey]
                  new == store[CalledKey]
              IN /\ new.ttl = old.ttl
                 /\ new.exp = old.exp
                 /\ DOMAIN new.h = (DOMAIN old.h) \cup (DOMAIN last.deltas)
                 /\ \A f \in DOMAIN new.h :
                       IF f \in DOMAIN last.deltas
                       THEN ValueIsPlus(new.h[f],
                                IF f \in DOMAIN old.h THEN old.h[f] ELSE PyStr(PyInt(0)),
                                last.deltas[f])
                       ELSE new.h[f] = old.h[f]

\* C8: increment_metrics on an absent entry creates it with the delta as the
\* field's initial value and with the default TTL: default_ttl seconds later, not
\* written again, the entry is a miss.
C8_IncrementCreatesWithTtl ==
    /\ (last.op = "incr" /\ last.up /\ CalledKey \notin DOMAIN last.pre)
          => /\ CalledKey \in DOMAIN store
             /\ \A f \in DOMAIN last.deltas :
                   store[CalledKey].h[f] = PyStr(PyInt(last.deltas[f]))
    /\ \A v \in Videos :
          (hist[v].kind = "incr_new" /\ redisUp /\ now >= hist[v].at + default_ttl)
              => GetNow(v) = None

----------------------------------------------------------------------------
(* The claims about the rollups *)

RowsFor(table, r) ==
    SelectSeq(table, LAMBDA x :
        x.video_id = r.video_id /\ x.timestamp = r.timestamp /\ x.shape = r.shape)

\* C9: running the rollup twice for the same bucket over the same raw events leaves
\* exactly one Aggregate Row per video for that bucket, with the field values of the run.
C9_RollupIdempotent ==
    (run.status = "ok" /\ <<run.impl, run.ts>> \in run.doneBefore)
        => \A i \in DOMAIN run.rows : RowsFor(aggTable, run.rows[i]) = <<run.rows[i]>>

\* C10: whenever a rollup run ends in failure, none of that run's rows are in the
\* aggregate table: the table is as it was before the run.
C10_AllOrNothing ==
    run.status = "failed" => aggTable = run.before

----------------------------------------------------------------------------
(* The historical range query of the API server (src/src/serving/api_server.py) *)

\* the aggregate table a range query reads holds at most MaxAggRows rows
MaxAggRows == 2

\* the counts of one video in one hour, as process_hourly_aggregation's query yields them
HourlyCounts ==
    {[unique_views |-> c[1], likes |-> c[2], total_watch_time |-> c[3],
      unique_users |-> 2, countries_reached |-> 1] :
        c \in {<<0, 1, 0>>, <<1, 0, 3>>, <<1, 1, 3>>, <<2, 0, 3>>, <<2, 1, 6>>}}

\* the hourly rows of the aggregate table, as save_aggregations writes them
HourlyRows ==
    {[video_id |-> "v1", timestamp |-> ts, shape |-> "flat",
      metrics |-> process_aggregation_results(c)] :
        ts \in {HourSecs, 2 * HourSecs}, c \in HourlyCounts}
    \cup {[video_id |-> "v2", timestamp |-> HourSecs, shape |-> "flat",
           metrics |-> process_aggregation_results(
               [unique_views |-> 1, likes |-> 1, total_watch_time |-> 3,
                unique_users |-> 2, countries_reached |-> 1])]}

HourlyTables == UNION {[1..n -> HourlyRows] : n \in 0..MaxAggRows}

\* the ranges a client asks for: start_time, end_time
RangeInputs == {<<HourSecs, HourSecs>>, <<HourSecs, 2 * HourSecs>>, <<3 * HourSecs, 4 * HourSecs>>}

\* two numbers stand for the same value
SameNumber(a, b) == a.num * b.den = b.num * a.den

RECURSIVE SqlSum(_, _)
\* SUM(column) over the rows of a group
SqlSum(rows, column) ==
    IF rows = << >> THEN [num |-> 0, den |-> 1]
    ELSE LET x == Head(rows).metrics[column]
             rest == SqlSum(Tail(rows), column)
         IN [num |-> x.num * rest.den + rest.num * x.den, den |-> x.den * rest.den]

\* AVG(column): the mean of the column's values, one value per row
SqlAvg(rows, column) ==
    LET s == SqlSum(rows, column) IN PyFloat(s.num, s.den * Len(rows))

RECURSIVE SqlMax(_, _)
SqlMax(rows, column) ==
    IF Len(rows) = 1 THEN Head(rows).metrics[column].num
    ELSE LET x == Head(rows).metrics[column].num
             rest == SqlMax(Tail(rows), column)
         IN IF x >= rest THEN x ELSE rest

\* WHERE video_id = @video_id AND timestamp BETWEEN @start_time AND @end_time
HistoricalSelection(table, v, start_time, end_time) ==
    SelectSeq(table, LAMBDA r :
        r.video_id = v /\ r.timestamp >= start_time /\ r.timestamp <= end_time)

\* the one row of get_historical_metrics's GROUP BY video_id, as VideoMetrics(...)
VideoMetrics(v, rows, t) ==
    [video_id |-> v,
     views |-> PyInt(SqlSum(rows, "unique_views").num),
     likes |-> PyInt(SqlSum(rows, "likes").num),
     watch_time |-> PyFloat(SqlSum(rows, "total_watch_time").num, 1),
     unique_users |-> PyInt(SqlSum(rows, "unique_users").num),
     countries_reached |-> PyInt(SqlMax(rows, "countries_reached")),
     engagement_rate |-> SqlAvg(rows, "engagement_rate"),
     avg_watch_time |-> SqlAvg(rows, "avg_watch_time"),
     timestamp |-> t]

\* api_server.get_historical_metrics
api_get_historical_metrics(v, range, query_raises) ==
    LET rows == HistoricalSelection(aggTable, v, range[1], range[2])
        call == [Call("historical", v) EXCEPT !.args = range, !.queried = TRUE]
    IN
    /\ last' = IF query_raises
               THEN [call EXCEPT !.status = except_Exception("error")]
               ELSE IF rows = << >>
               THEN \* if results.total_rows == 0: raise HTTPException(404), inside the try
                    [call EXCEPT !.status = except_Exception("404")]
               ELSE [call EXCEPT !.status = "ok", !.ret = VideoMetrics(v, rows, now)]
    /\ UNCHANGED <<now, store, redisUp, bigquery, hist, rawEvents, aggTable, run, procs>>

HistoricalInit ==
    /\ InitCache
    /\ bigquery
    /\ rawEvents = << >>
    /\ aggTable \in HourlyTables
    /\ run = NoRun

HistoricalNext ==
    \E v \in RollupVideos, range \in RangeInputs, query_raises \in BOOLEAN :
        api_get_historical_metrics(v, range, query_raises)

SpecHistorical == HistoricalInit /\ [][HistoricalNext]_vars

\* C11: the record a historical range query returns has engagement_rate equal to
\* the range's total likes over its total views and avg_watch_time equal to its
\* total watch time over its total views (0 when the range has no views).
C11_RangeRatiosFromTotals ==
    (last.op = "historical" /\ last.status = "ok")
        => LET rows == HistoricalSelection(aggTable, last.video, last.args[1], last.args[2])
               views == SqlSum(rows, "unique_views")
               likes == SqlSum(rows, "likes")
               watch == SqlSum(rows, "total_watch_time")
               Ratio(a, b) == IF b.num > 0 THEN PyFloat(a.num * b.den, a.den * b.num)
                              ELSE PyInt(0)
           IN /\ SameNumber(last.ret.engagement_rate, Ratio(likes, views))
              /\ SameNumber(last.ret.avg_watch_time, Ratio(watch, views))

----------------------------------------------------------------------------
(* The trending list of MetricsService *)

TrendVideos == {"v1", "v2", "v3"}

\* a Metrics Record with the given views and likes and the ratios they determine
TrendRec(views, likes) ==
    [views |-> PyInt(views), likes |-> PyInt(likes), watch_time |-> PyFloat(views, 1),
     unique_users |-> PyInt(views), countries_reached |-> PyInt(1),
     engagement_rate |-> PyFloat(likes, views), avg_watch_time |-> PyFloat(1, 1)]

\* two records of equal engagement rate and different view counts, and a lower one
TrendInputs == {TrendRec(10, 5), TrendRec(2, 1), TrendRec(4, 1)}

\* the limits a client asks for
LimitInputs == {1, 2, 3}

\* KEYS yt:video:*:metrics
video_keys_matching(st) ==
    {k \in DOMAIN st : Len(k) = 4 /\ k[1] = "yt" /\ k[2] = "video" /\ k[4] = "metrics"}

\* the orders in which KEYS may list a set of keys
Enumerations(keys) ==
    {s \in [1..Cardinality(keys) -> keys] : \A k \in keys : \E i \in DOMAIN s : s[i] = k}

\* the dict get_trending_videos builds for one key: key.decode('utf-8').split(':')[1]
\* is the second ':'-separated part of the key
TrendingEntry(key, metrics) ==
    [video_id |-> key[2],
     views |-> IF "views" \in DOMAIN metrics THEN ParseInt(metrics["views"]) ELSE PyInt(0),
     likes |-> IF "likes" \in DOMAIN metrics THEN ParseInt(metrics["likes"]) ELSE PyInt(0),
     engagement_rate |-> IF "engagement_rate" \in DOMAIN metrics
                         THEN ParseFloat(metrics["engagement_rate"]) ELSE PyFloat(0, 1)]

\* int(...) raises on a field that does not hold digits
TrendingParses(metrics) ==
    \A f \in {"views", "likes"} \cap DOMAIN metrics : IntParses(metrics[f])

RateAtLeast(x, y) ==
    x.engagement_rate.num * y.engagement_rate.den >= y.engagement_rate.num * x.engagement_rate.den

RECURSIVE InsertByRate(_, _)
\* x goes behind every dict whose engagement_rate is at least its own
InsertByRate(sorted, x) ==
    IF sorted = << >> THEN <<x>>
    ELSE IF RateAtLeast(Head(sorted), x)
         THEN <<Head(sorted)>> \o InsertByRate(Tail(sorted), x)
         ELSE <<x>> \o sorted

RECURSIVE sort_by_engagement_rate(_)
\* videos.sort(key=lambda x: x['engagement_rate'], reverse=True): list.sort is
\* stable, dicts of equal key keep the order they had in the list
sort_by_engagement_rate(videos) ==
    IF videos = << >> THEN << >>
    ELSE InsertByRate(sort_by_engagement_rate(SubSeq(videos, 1, Len(videos) - 1)),
                      videos[Len(videos)])

\* videos[:limit]
Slice(videos, limit) ==
    SubSeq(videos, 1, IF limit < Len(videos) THEN limit ELSE Len(videos))

\* MetricsService.get_trending_videos; video_keys is the order in which KEYS
\* listed the keys
get_trending_videos(limit) ==
    \E video_keys \in IF redisUp THEN Enumerations(video_keys_matching(store)) ELSE {<< >>} :
        LET videos == [i \in DOMAIN video_keys |->
                          TrendingEntry(video_keys[i], store[video_keys[i]].h)]
            call == [Call("trending", "v1") EXCEPT !.args = <<limit>>]
        IN
        /\ last' = IF ~redisUp
                   THEN [call EXCEPT !.status = except_Exception("error")]
                   ELSE IF video_keys = << >>
                   THEN \* if not video_keys: return []
                        [call EXCEPT !.status = "ok", !.ret = << >>]
                   ELSE IF \E i \in DOMAIN video_keys : ~TrendingParses(store[video_keys[i]].h)
                   THEN [call EXCEPT !.status = except_Exception("error")]
                   ELSE [call EXCEPT !.status = "ok",
                                     !.ret = Slice(sort_by_engagement_rate(videos), limit)]
        /\ UNCHANGED <<now, store, redisUp, bigquery, hist, rawEvents, aggTable, run, procs>>

TrendingInit ==
    /\ now = 0
    /\ store = << >>
    /\ redisUp = TRUE
    /\ bigquery = FALSE
    /\ last = NoCall
    /\ hist = [v \in TrendVideos |-> NoWrite]
    /\ procs = << >>
    /\ NoRollup

TrendingNext ==
    \/ \E v \in TrendVideos, r \in TrendInputs : set_video_metrics(v, r, NoTtlArg)
    \/ \E limit \in LimitInputs : get_trending_videos(limit)
    \/ Tick(default_ttl)
    \/ BackendDown
    \/ BackendUp

SpecTrending == TrendingInit /\ [][TrendingNext]_vars

\* x is listed no later than y: a higher engagement rate, or an equal one and at
\* least as many views
RanksBefore(x, y) ==
    /\ RateAtLeast(x, y)
    /\ RateAtLeast(y, x) => x.views.num >= y.views.num

\* C12: get_trending_videos(limit) returns the top `limit` live cache entries by
\* engagement_rate, highest first, entries of equal engagement_rate ordered by
\* higher view count, whatever the order in which the keys were listed.
C12_TrendingOrder ==
    (last.op = "trending" /\ last.status = "ok")
        => LET keys == video_keys_matching(last.pre)
               Entry(k) == TrendingEntry(k, last.pre[k].h)
               ret == last.ret
           IN /\ Len(ret) = IF last.args[1] < Cardinality(keys)
                            THEN last.args[1] ELSE Cardinality(keys)
              /\ \A i \in DOMAIN ret : \E k \in keys : ret[i] = Entry(k)
              /\ \A i, j \in DOMAIN ret : i < j => RanksBefore(ret[i], ret[j])
              /\ \A k \in keys :
                    \/ \E i \in DOMAIN ret : ret[i] = Entry(k)
                    \/ \A i \in DOMAIN ret : RanksBefore(ret[i], Entry(k))

----------------------------------------------------------------------------
(* The sliding window of RedisCache: a sorted set per video.  In the keyspace a
   sorted set is an entry whose h maps each member to its score *)

\* add_to_processing_window: window_size: int = 300
window_size == 300

\* the clock of the window is followed for MaxWindowTicks thirds of a window
MaxWindowTicks == 5

WindowSteps == {window_size \div 3, window_size}

WindowKey(v) == get_key(<<"window", v>>)

\* the events added: dicts with a 'timestamp', and one without
WindowEvents ==
    {[id |-> 1, timestamp |-> 0], [id |-> 2, timestamp |-> window_size \div 3],
     [id |-> 3, timestamp |-> window_size + window_size \div 3], [id |-> 4]}

\* json.dumps(event) and json.loads(member)
json_dumps(event) == [json |-> event]
json_loads(member) == member.json

\* ZADD key {member: score}: the member is added, or its score replaced
zadd(st, key, member, score) ==
    LET old == IF key \in DOMAIN st THEN st[key].h ELSE << >>
    IN Put(st, key, [h |-> [m \in (DOMAIN old) \cup {member} |->
                               IF m = member THEN score ELSE old[m]],
                     ttl |-> IF key \in DOMAIN st THEN st[key].ttl ELSE FALSE,
                     exp |-> IF key \in DOMAIN st THEN st[key].exp ELSE 0])

\* ZREMRANGEBYSCORE key -inf max: every member with score <= max is removed, both
\* ends of the range being inclusive; a sorted set left empty is deleted
zremrangebyscore(st, key, max) ==
    IF key \notin DOMAIN st THEN st
    ELSE LET kept == {m \in DOMAIN st[key].h : st[key].h[m] > max}
         IN IF kept = {} THEN Drop(st, key)
            ELSE Put(st, key, [st[key] EXCEPT !.h = [m \in kept |-> st[key].h[m]]])

\* ZRANGE key 0 -1: the members by ascending score, members of equal score by
\* their bytes
zrange_all(st, key) ==
    IF key \notin DOMAIN st THEN << >>
    ELSE LET zset == st[key].h
         IN CHOOSE s \in Enumerations(DOMAIN zset) :
                \A i, j \in DOMAIN s : i < j =>
                    \/ zset[s[i]] < zset[s[j]]
                    \/ zset[s[i]] = zset[s[j]] /\ s[i].json.id < s[j].json.id

\* RedisCache.add_to_processing_window
add_to_processing_window(v, event) ==
    LET key == WindowKey(v)
        timestamp == IF "timestamp" \in DOMAIN event THEN event.timestamp ELSE now
        min_timestamp == now - window_size
    IN
    /\ store' = IF redisUp
                THEN zremrangebyscore(zadd(store, key, json_dumps(event), timestamp),
                                      key, min_timestamp)
                ELSE store
    /\ last' = [Call("window_add", v) EXCEPT !.rec = event, !.ok = redisUp]
    /\ UNCHANGED <<now, redisUp, bigquery, hist, rawEvents, aggTable, run, procs>>

\* RedisCache.get_window_events
get_window_events(v) ==
    LET events == zrange_all(store, WindowKey(v))
    IN
    /\ last' = [Call("window_get", v) EXCEPT
                  !.ret = IF redisUp THEN [i \in DOMAIN events |-> json_loads(events[i])]
                          ELSE << >>,
                  !.ok = redisUp]
    /\ UNCHANGED <<now, store, redisUp, bigquery, hist, rawEvents, aggTable, run, procs>>

WindowTick(d) ==
    /\ now + d <= MaxWindowTicks * (window_size \div 3)
    /\ now' = now + d
    /\ last' = Call("tick", "v1")
    /\ UNCHANGED <<store, redisUp, bigquery, hist, rawEvents, aggTable, run, procs>>

WindowNext ==
    \/ \E v \in Videos, event \in WindowEvents : add_to_processing_window(v, event)
    \/ \E v \in Videos : get_window_events(v)
    \/ \E d \in WindowSteps : WindowTick(d)
    \/ BackendDown
    \/ BackendUp

SpecWindow == Init /\ [][WindowNext]_vars

\* the window of a video in a keyspace: member -> score
WindowOf(st, v) == IF WindowKey(v) \in DOMAIN st THEN st[WindowKey(v)].h ELSE << >>

\* C13: an add_to_processing_window completing at time now leaves in the window the
\* added event and the earlier entries, without exactly those whose timestamp is
\* below now - window_size: an entry on the boundary stays.
C13_AddEvictsBelowBoundary ==
    (last.op = "window_add" /\ last.ok)
        => LET added == zadd(last.pre, WindowKey(last.video), json_dumps(last.rec),
                             IF "timestamp" \in DOMAIN last.rec
                             THEN last.rec.timestamp ELSE last.at)
               before == WindowOf(added, last.video)
               live == {m \in DOMAIN before : before[m] >= last.at - window_size}
           IN WindowOf(store, last.video) = [m \in live |-> before[m]]

\* C14: get_window_events at time now returns no event whose timestamp is below
\* now - window_size, also when no add has happened since the event aged out.
C14_SnapshotIsLive ==
    (last.op = "window_get" /\ last.ok)
        => \A i \in DOMAIN last.ret :
              WindowOf(last.pre, last.video)[json_dumps(last.ret[i])] >= last.at - window_size

----------------------------------------------------------------------------
(* The claims about the records and the buckets of the rollups *)

\* C15: every per-video record a rollup run produces carries engagement_rate, equal
\* to likes over unique_views, and avg_watch_time, equal to total_watch_time over
\* unique_views (both 0 when there are no views), whichever rollup produced it.
C15_RollupRatios ==
    \A i \in DOMAIN run.rows :
        LET m == run.rows[i].metrics
            Over(a, views) == IF views.num > 0 THEN PyFloat(a.num, a.den * views.num)
                              ELSE PyInt(0)
        IN /\ {"engagement_rate", "avg_watch_time"} \subseteq DOMAIN m
           /\ SameNumber(m.engagement_rate, Over(m.likes, m.unique_views))
           /\ SameNumber(m.avg_watch_time, Over(m.total_watch_time, m.unique_views))

\* the start of the bucket a run covers, and the raw events its query fetches
BucketStart(impl, ts) == IF impl = "hourly" THEN ts - (ts % HourSecs) ELSE ts - HourSecs
Fetched(impl, ts) ==
    IF impl = "hourly"
    THEN Range(HourlySelection(rawEvents, BucketStart(impl, ts), BucketStart(impl, ts) + HourSecs))
    ELSE Range(BatchSelection(rawEvents, BucketStart(impl, ts), ts))

\* C16: when a rollup has run for two consecutive hourly buckets, no raw event was
\* fetched by both runs' queries, and every raw event between the start of the
\* earlier bucket and the end of the later one was fetched by one of them.
C16_BucketsPartition ==
    \A prev \in run.doneBefore :
        (/\ run.status = "ok"
         /\ prev[1] = run.impl
         /\ BucketStart(run.impl, run.ts) = BucketStart(prev[1], prev[2]) + HourSecs)
            => /\ Fetched(run.impl, prev[2]) \cap Fetched(run.impl, run.ts) = {}
               /\ \A e \in Range(rawEvents) :
                     (/\ e.event_timestamp > BucketStart(prev[1], prev[2])
                      /\ e.event_timestamp < BucketStart(run.impl, run.ts) + HourSecs)
                        => e \in Fetched(run.impl, prev[2]) \cup Fetched(run.impl, run.ts)

----------------------------------------------------------------------------
(* The loop of the rollup job: main() of src/src/storage/bigquery_handler.py *)

\* the module imports typing, pandas, bigquery, logging, datetime and yaml: the
\* name `time` is not bound, and time.sleep(...) raises NameError
time_is_imported == FALSE

\* try: processor.process_batch(), with no batch_timestamp: the run is for utcnow()
main_process_batch(out) ==
    /\ procs["main"].pc = "try"
    /\ process_batch_call(now, out)
    /\ procs' = [procs EXCEPT !["main"].pc =
                    IF run'.status = "failed" THEN "except" ELSE "sleep"]
    /\ UNCHANGED <<rawEvents, now, store, redisUp, bigquery, last, hist>>

\* time.sleep(3600), still inside the try
main_sleep ==
    /\ procs["main"].pc = "sleep"
    /\ IF time_is_imported
       THEN /\ now' = now + HourSecs
            /\ procs' = [procs EXCEPT !["main"].pc = "try"]
       ELSE \* NameError is an Exception: the except clause takes it
            /\ now' = now
            /\ procs' = [procs EXCEPT !["main"].pc = "except"]
    /\ UNCHANGED <<rawEvents, aggTable, run, store, redisUp, bigquery, last, hist>>

\* except Exception: logging.error(...); time.sleep(60)
main_except ==
    /\ procs["main"].pc = "except"
    /\ IF time_is_imported
       THEN /\ now' = now + 60
            /\ procs' = [procs EXCEPT !["main"].pc = "try"]
       ELSE \* NameError inside the handler leaves the loop and main()
            /\ now' = now
            /\ procs' = [procs EXCEPT !["main"].pc = "raised"]
    /\ UNCHANGED <<rawEvents, aggTable, run, store, redisUp, bigquery, last, hist>>

MainInit ==
    /\ now \in BatchTimes
    /\ store = << >>
    /\ redisUp = TRUE
    /\ bigquery = TRUE
    /\ last = NoCall
    /\ hist = [v \in Videos |-> NoWrite]
    /\ rawEvents \in RawTables
    /\ aggTable = << >>
    /\ run = NoRun
    /\ procs = [p \in {"main"} |-> [pc |-> "try"]]

MainNext ==
    \/ \E out \in RunOutcomes : main_process_batch(out)
    \/ main_sleep
    \/ main_except

SpecMain == MainInit /\ [][MainNext]_vars

\* C17: a bucket whose run ended in failure is processed again by the job's loop:
\* the job never comes to a stop with its failed bucket not rolled up.
C17_FailedBucketRetried ==
    (procs["main"].pc = "raised" /\ run.status = "failed")
        => <<run.impl, run.ts>> \in run.done

----------------------------------------------------------------------------
(* Concurrent invocations of the rollup: process_batch of bigquery_handler.py
   called by several callers, one step per request to the durable store *)

Jobs == {"job1", "job2"}

IdleJob == [pc |-> "idle", ts |-> 0, df |-> << >>]

\* a caller enters process_batch(batch_timestamp): nothing is tested, nothing is
\* taken before the query is built
process_batch_enter(p, batch_timestamp) ==
    /\ procs[p].pc = "idle"
    /\ run.n < MaxRuns
    /\ run' = [run EXCEPT !.n = @ + 1]
    /\ procs' = [procs EXCEPT ![p] = [pc |-> "query", ts |-> batch_timestamp, df |-> << >>]]
    /\ UNCHANGED <<rawEvents, aggTable, now, store, redisUp, bigquery, last, hist>>

\* df = self.bq_client.query(...).to_dataframe(); if df.empty: return {}
process_batch_query(p, raises) ==
    LET df == BatchSelection(rawEvents, procs[p].ts - HourSecs, procs[p].ts)
    IN
    /\ procs[p].pc = "query"
    /\ procs' = [procs EXCEPT ![p] =
                    IF raises \/ df = << >> THEN IdleJob
                    ELSE [pc |-> "save", ts |-> procs[p].ts, df |-> df]]
    /\ UNCHANGED <<rawEvents, aggTable, run, now, store, redisUp, bigquery, last, hist>>

\* self._aggregate_metrics(df), then self._save_aggregated_metrics(...)
process_batch_save(p, out) ==
    LET rows == save_aggregated_metrics_rows(procs[p].df, procs[p].ts)
    IN
    /\ procs[p].pc = "save"
    /\ out.kind # "query_raise"
    /\ out.rejected \subseteq DOMAIN rows
    /\ aggTable' = insert_rows_json(aggTable, rows, out)
    /\ procs' = [procs EXCEPT ![p] = IdleJob]
    /\ UNCHANGED <<rawEvents, run, now, store, redisUp, bigquery, last, hist>>

JobsInit ==
    /\ now = 0
    /\ store = << >>
    /\ redisUp = TRUE
    /\ bigquery = TRUE
    /\ last = NoCall
    /\ hist = [v \in Videos |-> NoWrite]
    /\ rawEvents \in RawTables
    /\ aggTable = << >>
    /\ run = NoRun
    /\ procs = [p \in Jobs |-> IdleJob]

JobsNext ==
    \/ \E p \in Jobs, ts \in BatchTimes : process_batch_enter(p, ts)
    \/ \E p \in Jobs, raises \in BOOLEAN : process_batch_query(p, raises)
    \/ \E p \in Jobs, out \in RunOutcomes : process_batch_save(p, out)

SpecJobs == JobsInit /\ [][JobsNext]_vars

\* C18: no two invocations of the rollup for the same bucket are in flight at once.
C18_NonReentrantPerBucket ==
    \A p, q \in Jobs :
        (p # q /\ procs[p].pc # "idle" /\ procs[q].pc # "idle")
            => procs[p].ts # procs[q].ts

----------------------------------------------------------------------------
(* Concurrent resolver calls: MetricsService.get_video_metrics run by parallel
   workers that share the cache, one step per request to a store *)

Workers == {"w1", "w2", "w3"}

IdleWorker == [pc |-> "idle", video |-> "v1", rec |-> None, status |-> "none",
               ret |-> None, wrote |-> FALSE]

\* a worker takes a request for video v
resolve_enter(w, v) ==
    /\ procs[w].pc = "idle"
    /\ procs' = [procs EXCEPT ![w].pc = "cache_get", ![w].video = v]
    /\ UNCHANGED <<now, store, redisUp, bigquery, last, hist, rawEvents, aggTable, run>>

\* metrics = self.redis.get_video_metrics(video_id); if metrics: return metrics
resolve_cache_get(w) ==
    LET metrics == get_video_metrics_result(store, redisUp, procs[w].video)
    IN
    /\ procs[w].pc = "cache_get"
    /\ procs' = [procs EXCEPT ![w] =
                    IF Truthy(metrics)
                    THEN [@ EXCEPT !.pc = "done", !.status = "ok", !.ret = metrics]
                    ELSE IF bigquery
                    THEN [@ EXCEPT !.pc = "query"]
                    ELSE [@ EXCEPT !.pc = "done", !.status = except_Exception("404")]]
    /\ UNCHANGED <<now, store, redisUp, bigquery, last, hist, rawEvents, aggTable, run>>

\* metrics = self.bigquery.get_video_metrics(...); if metrics: ...
resolve_query(w, dur) ==
    /\ procs[w].pc = "query"
    /\ procs' = [procs EXCEPT ![w] =
                    IF dur.kind = "rows"
                    THEN [@ EXCEPT !.pc = "cache_set", !.rec = dur.rec]
                    ELSE IF dur.kind = "raise"
                    THEN [@ EXCEPT !.pc = "done", !.status = except_Exception("error")]
                    ELSE [@ EXCEPT !.pc = "done", !.status = except_Exception("404")]]
    /\ UNCHANGED <<now, store, redisUp, bigquery, last, hist, rawEvents, aggTable, run>>

\* self.redis.set_video_metrics(video_id, metrics); return metrics
resolve_cache_set(w) ==
    /\ procs[w].pc = "cache_set"
    /\ store' = IF redisUp
                THEN set_video_metrics_store(store, now, procs[w].video, procs[w].rec, NoTtlArg)
                ELSE store
    /\ procs' = [procs EXCEPT ![w] =
                    [@ EXCEPT !.pc = "done", !.status = "ok", !.ret = procs[w].rec,
                              !.wrote = redisUp]]
    /\ UNCHANGED <<now, redisUp, bigquery, last, hist, rawEvents, aggTable, run>>

WorkersInit ==
    /\ now = 0
    /\ store = << >>
    /\ redisUp = TRUE
    /\ bigquery \in BOOLEAN
    /\ last = NoCall
    /\ hist = [v \in Videos |-> NoWrite]
    /\ NoRollup
    /\ procs = [w \in Workers |-> IdleWorker]

WorkersNext ==
    \/ \E w \in Workers, v \in Videos : resolve_enter(w, v)
    \/ \E w \in Workers : resolve_cache_get(w)
    \/ \E w \in Workers, dur \in DurableOutcomes : resolve_query(w, dur)
    \/ \E w \in Workers : resolve_cache_set(w)

SpecWorkers == WorkersInit /\ [][WorkersNext]_vars

\* C19: of the get_video_metrics calls that run concurrently for one video against
\* an empty cache, at most one writes the cache entry.
C19_AtMostOncePopulation ==
    \A v \in Videos : Cardinality({w \in Workers : procs[w].wrote /\ procs[w].video = v}) <= 1

----------------------------------------------------------------------------
(* set_video_metrics beside concurrent readers: the pipeline buffers its commands
   in the client and sends them on execute(); a reader is one HGETALL *)

Readers == {"r1", "r2"}

IdleSetter == [pc |-> "idle", video |-> "v1", rec |-> None, ttl |-> NoTtlArg,
               cmds |-> << >>, before |-> << >>]
IdleReader == [pc |-> "idle", video |-> "v1", op |-> "none", obs |-> None,
               ret |-> None, during |-> "none"]

\* the keyspaces the set may find: no entry, an entry with the default TTL, an
\* entry that increment_metrics created
SetterStores ==
    {<< >>,
     set_video_metrics_store(<< >>, 0, "v1", RecA, NoTtlArg),
     increment_metrics_store(<< >>, "v1", [views |-> 1])}

\* one buffered command, applied by the backend
apply_command(st, t, c) ==
    IF c.cmd = "hmset" THEN hmset(st, c.key, c.mapping)
    ELSE expire(st, t, c.key, c.seconds)

RECURSIVE apply_commands(_, _, _)
apply_commands(st, t, cmds) ==
    IF cmds = << >> THEN st
    ELSE apply_commands(apply_command(st, t, Head(cmds)), t, Tail(cmds))

\* a pipeline that sends its commands one at a time, outside a transaction
transaction_size_one(cmds) == 1

\* self.redis.pipeline(): transaction=True, so execute() wraps every buffered
\* command in one MULTI ... EXEC, which the backend runs as a unit
transaction_size(cmds) == Len(cmds)

\* set_video_metrics up to pipeline.expire(...): the commands are buffered
set_buffer(p, v, metrics, ttl) ==
    LET key == MetricsKey(v)
        metrics_str == [k \in DOMAIN metrics |-> PyStr(metrics[k])]
    IN
    /\ procs[p].pc = "idle"
    /\ procs' = [procs EXCEPT ![p] =
                    [pc |-> "execute", video |-> v, rec |-> metrics, ttl |-> ttl,
                     cmds |-> <<[cmd |-> "hmset", key |-> key, mapping |-> metrics_str, seconds |-> 0],
                                [cmd |-> "expire", key |-> key, mapping |-> << >>,
                                 seconds |-> EffectiveTtl(ttl)]>>,
                     before |-> store]]
    /\ UNCHANGED <<now, store, redisUp, bigquery, last, hist, rawEvents, aggTable, run>>

\* pipeline.execute(): the backend runs the next unit of commands
set_execute(p) ==
    LET n == transaction_size(procs[p].cmds)
        rest == SubSeq(procs[p].cmds, n + 1, Len(procs[p].cmds))
    IN
    /\ procs[p].pc = "execute"
    /\ store' = apply_commands(store, now, SubSeq(procs[p].cmds, 1, n))
    /\ procs' = [procs EXCEPT ![p].cmds = rest,
                              ![p].pc = IF rest = << >> THEN "done" ELSE "execute"]
    /\ UNCHANGED <<now, redisUp, bigquery, last, hist, rawEvents, aggTable, run>>

\* the entry of a video as the backend holds it, fields and deadline
EntryOf(st, v) == IF MetricsKey(v) \in DOMAIN st THEN st[MetricsKey(v)] ELSE None

\* RedisCache.get_video_metrics by a reader: one HGETALL
read_get(r, v) ==
    /\ procs[r].pc = "idle"
    /\ procs' = [procs EXCEPT ![r] =
                    [pc |-> "done", video |-> v, op |-> "get", obs |-> EntryOf(store, v),
                     ret |-> get_video_metrics_result(store, redisUp, v),
                     during |-> procs["setter"].pc]]
    /\ UNCHANGED <<now, store, redisUp, bigquery, last, hist, rawEvents, aggTable, run>>

\* the HGETALL of get_trending_videos on the video's key
read_trending(r, v) ==
    /\ procs[r].pc = "idle"
    /\ procs' = [procs EXCEPT ![r] =
                    [pc |-> "done", video |-> v, op |-> "trending", obs |-> EntryOf(store, v),
                     ret |-> IF MetricsKey(v) \in DOMAIN store
                             THEN TrendingEntry(MetricsKey(v), store[MetricsKey(v)].h)
                             ELSE None,
                     during |-> procs["setter"].pc]]
    /\ UNCHANGED <<now, store, redisUp, bigquery, last, hist, rawEvents, aggTable, run>>

SetterInit ==
    /\ now = 0
    /\ store \in SetterStores
    /\ redisUp = TRUE
    /\ bigquery = FALSE
    /\ last = NoCall
    /\ hist = [v \in Videos |-> NoWrite]
    /\ NoRollup
    /\ procs = [p \in Readers \cup {"setter"} |-> IF p = "setter" THEN IdleSetter ELSE IdleReader]

SetterNext ==
    \/ \E v \in Videos, r \in RecordInputs, ttl \in TtlInputs : set_buffer("setter", v, r, ttl)
    \/ set_execute("setter")
    \/ \E r \in Readers, v \in Videos : read_get(r, v)
    \/ \E r \in Readers, v \in Videos : read_trending(r, v)

SpecSetter == SetterInit /\ [][SetterNext]_vars

\* the entry before the set, and the entry after its pipeline has run
EntryBefore == EntryOf(procs["setter"].before, procs["setter"].video)
EntryAfter ==
    EntryOf(set_video_metrics_store(procs["setter"].before, now, procs["setter"].video,
                                    procs["setter"].rec, procs["setter"].ttl),
            procs["setter"].video)

\* C20: a read interleaved with a set_video_metrics on the same video finds the
\* entry, fields and expiry, either as it was before the set or as it is after it:
\* never some of the new fields, never the new fields without the new expiry.
C20_SetIsAtomic ==
    procs["setter"].pc # "idle"
        => /\ EntryOf(store, procs["setter"].video) \in {EntryBefore, EntryAfter}
           /\ procs["setter"].pc = "done" => EntryOf(store, procs["setter"].video) = EntryAfter
           /\ \A r \in Readers :
                 procs[r].pc = "done" =>
                    /\ procs[r].obs \in {EntryBefore, EntryAfter}
                    /\ procs[r].during = "done" => procs[r].obs = EntryAfter
                    /\ procs[r].during # "done" => procs[r].obs = EntryBefore

C20_Witness ==
    /\ procs["setter"].pc = "done"
    /\ EntryBefore # None
    /\ EntryAfter # None
    /\ EntryBefore.h # EntryAfter.h
    /\ EntryBefore.exp # EntryAfter.exp
    /\ procs["r1"].pc = "done" /\ procs["r1"].during = "execute"
    /\ procs["r1"].obs = EntryBefore
    /\ procs["r2"].pc = "done" /\ procs["r2"].during = "done"
    /\ procs["r2"].obs = EntryAfter

----------------------------------------------------------------------------
(* Concurrent add_to_processing_window calls beside readers of the window: the
   call sends ZADD and ZREMRANGEBYSCORE as two requests, one step each *)

Adders == {"a1", "a2"}

\* add_to_processing_window up to self.redis.zadd(...)
add_insert(p, v, event) ==
    /\ procs[p].pc = "idle"
    /\ store' = zadd(store, WindowKey(v), json_dumps(event),
                     IF "timestamp" \in DOMAIN event THEN event.timestamp ELSE now)
    /\ procs' = [procs EXCEPT ![p] = [IdleSetter EXCEPT !.pc = "evict", !.video = v,
                                                        !.rec = event, !.before = store]]
    /\ UNCHANGED <<now, redisUp, bigquery, last, hist, rawEvents, aggTable, run>>

\* add_to_processing_window from min_timestamp = ... to return True
add_evict(p) ==
    /\ procs[p].pc = "evict"
    /\ store' = zremrangebyscore(store, WindowKey(procs[p].video), now - window_size)
    /\ procs' = [procs EXCEPT ![p].pc = "done"]
    /\ UNCHANGED <<now, redisUp, bigquery, last, hist, rawEvents, aggTable, run>>

\* RedisCache.get_window_events by a reader: one ZRANGE
window_read(r, v) ==
    LET events == zrange_all(store, WindowKey(v))
    IN
    /\ procs[r].pc = "idle"
    /\ procs' = [procs EXCEPT ![r] =
                    [pc |-> "done", video |-> v, op |-> "window_get",
                     obs |-> IF WindowKey(v) \in DOMAIN store THEN store[WindowKey(v)].h
                             ELSE << >>,
                     ret |-> [i \in DOMAIN events |-> json_loads(events[i])],
                     during |-> {p \in Adders : procs[p].pc = "evict"}]]
    /\ UNCHANGED <<now, store, redisUp, bigquery, last, hist, rawEvents, aggTable, run>>

\* the adds start a window and a third after time 0, on an empty window
AddersInit ==
    /\ now = window_size + window_size \div 3
    /\ store = << >>
    /\ redisUp = TRUE
    /\ bigquery = FALSE
    /\ last = NoCall
    /\ hist = [v \in Videos |-> NoWrite]
    /\ NoRollup
    /\ procs = [p \in Adders \cup Readers |-> IF p \in Adders THEN IdleSetter ELSE IdleReader]

AddersNext ==
    \/ \E p \in Adders, v \in Videos, event \in WindowEvents : add_insert(p, v, event)
    \/ \E p \in Adders : add_evict(p)
    \/ \E r \in Readers, v \in Videos : window_read(r, v)

SpecAdders == AddersInit /\ [][AddersNext]_vars

\* C21: no get_window_events finds the window of a video between the insert and
\* the eviction of an add_to_processing_window call: what it reads holds no event
\* older than now - window_size.
C21_AddIsOneUnit ==
    \A r \in Readers :
        procs[r].pc = "done"
            => \A m \in DOMAIN procs[r].obs : procs[r].obs[m] >= now - window_size

----------------------------------------------------------------------------
(* The serving calls of MetricsService, the real-time route of the API server and
   the housekeeping sweep, over one cache *)

\* MetricsService.get_historical_metrics
MetricsService_get_historical_metrics(v, dur) ==
    LET call == [Call("svc_historical", v) EXCEPT !.durable = dur.kind, !.queried = bigquery]
    IN
    /\ last' = IF ~bigquery
               THEN \* raise HTTPException(status_code=500, ...); except HTTPException: raise
                    [call EXCEPT !.status = "500", !.durable = "none"]
               ELSE IF dur.kind = "raise"
               THEN [call EXCEPT !.status = except_Exception("error")]
               ELSE IF dur.kind = "empty"
               THEN \* raise HTTPException(status_code=404, ...); except HTTPException: raise
                    [call EXCEPT !.status = "404"]
               ELSE [call EXCEPT !.status = "ok", !.ret = dur.rec]
    /\ UNCHANGED <<now, store, redisUp, bigquery, hist, rawEvents, aggTable, run, procs>>

\* api_server.get_realtime_metrics: metrics_key = f"video:{video_id}:metrics"
api_get_realtime_metrics(v) ==
    LET metrics_key == <<"video", v, "metrics">>
        cached_metrics == IF metrics_key \in DOMAIN store THEN store[metrics_key].h ELSE << >>
        call == Call("api_realtime", v)
    IN
    /\ last' = IF ~redisUp
               THEN [call EXCEPT !.status = except_Exception("error")]
               ELSE IF cached_metrics = << >>
               THEN \* if not cached_metrics: raise HTTPException(404), inside the try
                    [call EXCEPT !.status = except_Exception("404")]
               ELSE IF \E f \in IntFields \cap DOMAIN cached_metrics : ~IntParses(cached_metrics[f])
               THEN [call EXCEPT !.status = except_Exception("error")]
               ELSE [call EXCEPT !.status = "ok",
                        !.ret = [f \in RecordFields |->
                                   IF f \in DOMAIN cached_metrics
                                   THEN IF f \in IntFields THEN ParseInt(cached_metrics[f])
                                        ELSE ParseFloat(cached_metrics[f])
                                   ELSE IF f \in IntFields THEN PyInt(0) ELSE PyFloat(0, 1)]]
    /\ UNCHANGED <<now, store, redisUp, bigquery, hist, rawEvents, aggTable, run, procs>>

\* the milliseconds into the current second at which a sweep runs
SweepPhases == {0, 600}

\* TTL key: -2 for no key, -1 for a key without deadline, else the remaining
\* milliseconds rounded to the nearest second, (pttl + 500) / 1000
redis_ttl(st, t, ms, key) ==
    IF key \notin DOMAIN st THEN -2
    ELSE IF ~st[key].ttl THEN -1
    ELSE ((st[key].exp - t) * 1000 - ms + 500) \div 1000

\* RedisCache.cleanup_old_data, run ms milliseconds into the current second
cleanup_old_data(ms) ==
    LET scanned == {k \in DOMAIN store : k[1] = "yt"}
        \* if not self.redis.ttl(key): self.redis.delete(key); cleaned += 1
        deleted == {k \in scanned : redis_ttl(store, now, ms, k) = 0}
    IN
    /\ store' = IF redisUp THEN [k \in (DOMAIN store) \ deleted |-> store[k]] ELSE store
    /\ last' = [Call("cleanup", "v1") EXCEPT
                  !.args = <<ms>>,
                  !.ret = [cleaned |-> IF redisUp THEN Cardinality(deleted) ELSE 0,
                           errors |-> 0]]
    /\ UNCHANGED <<now, redisUp, bigquery, hist, rawEvents, aggTable, run, procs>>

ServiceNext ==
    \/ \E v \in Videos, r \in RecordInputs, ttl \in TtlInputs : set_video_metrics(v, r, ttl)
    \/ \E v \in Videos, dur \in DurableOutcomes : MetricsService_get_video_metrics(v, dur)
    \/ \E v \in Videos, dur \in DurableOutcomes : MetricsService_get_historical_metrics(v, dur)
    \/ \E limit \in LimitInputs : get_trending_videos(limit)
    \/ \E v \in Videos : api_get_realtime_metrics(v)
    \/ \E ms \in SweepPhases : cleanup_old_data(ms)
    \/ \E d \in TickSteps : Tick(d)
    \/ BackendDown
    \/ BackendUp

SpecService == Init /\ [][ServiceNext]_vars

\* C22: every call of MetricsService.get_video_metrics, get_historical_metrics and
\* get_trending_videos ends by returning data or with HTTPException 404 or 500,
\* whatever the cache and the durable store do: no other exception reaches the caller.
C22_TypedOutcomes ==
    last.op \in {"svc_get", "svc_historical", "trending"}
        => /\ last.status \in {"ok", "404", "500"}
           /\ (~last.up /\ last.op = "trending") => last.status = "500"
           /\ (last.queried /\ last.durable = "raise") => last.status = "500"

C22_Witness ==
    /\ last.op = "svc_historical"
    /\ ~last.up
    /\ last.queried /\ last.durable = "raise"
    /\ last.status = "500"

\* C25: cleanup_old_data deletes no entry that is still live, and the count it
\* returns is the number of keys it deleted.
C25_SweepSparesLive ==
    (last.op = "cleanup" /\ last.up)
        => /\ \A k \in DOMAIN last.pre :
                 (~last.pre[k].ttl \/ last.pre[k].exp * 1000 > last.at * 1000 + last.args[1])
                    => k \in DOMAIN store
           /\ last.ret.cleaned = Cardinality((DOMAIN last.pre) \ (DOMAIN store))

\* C30: when RedisCache holds an unexpired record for a video on a healthy backend,
\* get_realtime_metrics for that video returns the record's fields.
C30_RouteReadsCache ==
    (last.op = "api_realtime" /\ last.up /\ get_video_metrics_result(last.pre, TRUE, last.video) # None)
        => /\ last.status = "ok"
           /\ last.ret = get_video_metrics_result(last.pre, TRUE, last.video)

----------------------------------------------------------------------------
(* Ingestion: EventValidator (src/src/ingestion/event_validator.py) and the
   callback wrapper of PubSubConsumer (src/src/ingestion/pubsub_consumer.py) *)

\* a batch holds at most MaxBatch events
MaxBatch == 3

\* self.schema, loaded from schema_path: required fields, and per property its
\* type and its enum (empty: none)
Schema ==
    [required |-> {"video_id", "event_type"},
     properties |->
        [video_id |-> [type |-> "string", enum |-> {}],
         event_type |-> [type |-> "string", enum |-> {"view", "like"}],
         watch_time |-> [type |-> "number", enum |-> {}]]]

\* the events offered: any of the fields, each absent or holding one of three values
ValidatorEvents ==
    UNION {[F -> {[type |-> "string", v |-> "v1"], [type |-> "string", v |-> "view"],
                  [type |-> "number", v |-> "4"]}] :
              F \in SUBSET DOMAIN Schema.properties}

\* self.validator.validate(event): what it raises.  fault: the validator fails for
\* a reason of its own (an unresolvable reference, a type the schema does not know)
validator_validate(event, fault) ==
    IF fault THEN "Exception"
    ELSE IF /\ Schema.required \subseteq DOMAIN event
            /\ \A f \in DOMAIN event :
                  /\ event[f].type = Schema.properties[f].type
                  /\ Schema.properties[f].enum # {} => event[f].v \in Schema.properties[f].enum
         THEN "none"
         ELSE "ValidationError"

\* a validate_event whose second except clause is missing
validate_event_result_uncaught(event, fault) ==
    LET raised == validator_validate(event, fault)
    IN IF raised = "none" THEN None
       ELSE IF raised = "ValidationError" THEN [str |-> "Validation error"]
       ELSE [raised |-> raised]

\* EventValidator.validate_event: None, or the message of the except clause taken
validate_event_result(event, fault) ==
    LET raised == validator_validate(event, fault)
    IN IF raised = "none" THEN None
       ELSE IF raised = "ValidationError" THEN [str |-> "Validation error"]
       ELSE [str |-> "Unexpected error during validation"]

\* validate_event, and is_valid on the same event
validate_event(event, fault) ==
    /\ last' = [Call("validate", "v1") EXCEPT
                  !.rec = event, !.args = <<fault>>,
                  !.ret = validate_event_result(event, fault),
                  \* is_valid: return self.validate_event(event) is None
                  !.ok = (validate_event_result(event, fault) = None)]
    /\ UNCHANGED <<now, store, redisUp, bigquery, hist, rawEvents, aggTable, run, procs>>

\* a validate_batch that keeps the last event first
validate_batch_result_prepending(events) ==
    LET Ok(e) == validate_event_result(e, FALSE) = None
        Rev(s) == [i \in DOMAIN s |-> s[Len(s) + 1 - i]]
    IN [valid |-> Rev(SelectSeq(events, Ok)),
        invalid |-> [i \in DOMAIN SelectSeq(events, LAMBDA e : ~Ok(e)) |->
                        <<SelectSeq(events, LAMBDA e : ~Ok(e))[i],
                          validate_event_result(SelectSeq(events, LAMBDA e : ~Ok(e))[i], FALSE)>>]]

RECURSIVE validate_batch_result(_)
\* EventValidator.validate_batch: the loop, one append per event
validate_batch_result(events) ==
    IF events = << >> THEN [valid |-> << >>, invalid |-> << >>]
    ELSE LET rest == validate_batch_result(SubSeq(events, 1, Len(events) - 1))
             event == events[Len(events)]
             error == validate_event_result(event, FALSE)
         IN IF error = None
            THEN [valid |-> Append(rest.valid, event), invalid |-> rest.invalid]
            ELSE [valid |-> rest.valid, invalid |-> Append(rest.invalid, <<event, error>>)]

validate_batch(events) ==
    /\ last' = [Call("validate_batch", "v1") EXCEPT
                  !.args = events, !.ret = validate_batch_result(events)]
    /\ UNCHANGED <<now, store, redisUp, bigquery, hist, rawEvents, aggTable, run, procs>>

\* a wrapper that acknowledges before it processes
callback_wrapper_calls_ack_first(message_data, callback_raises) ==
    IF "json" \notin DOMAIN message_data THEN <<"loads_raised", "nack">>
    ELSE IF callback_raises THEN <<"loads", "ack", "callback_raised", "nack">>
    ELSE <<"loads", "ack", "callback_returned">>

\* callback_wrapper: what it calls, in order.  json.loads raises on bytes that are
\* not a JSON document; the callback returns or raises
callback_wrapper_calls(message_data, callback_raises) ==
    IF "json" \notin DOMAIN message_data THEN <<"loads_raised", "nack">>
    ELSE IF callback_raises THEN <<"loads", "callback_raised", "nack">>
    ELSE <<"loads", "callback_returned", "ack">>

\* one message delivered to callback_wrapper
callback_wrapper(message_data, callback_raises) ==
    /\ last' = [Call("consume", "v1") EXCEPT
                  !.rec = message_data, !.args = <<callback_raises>>,
                  !.ret = callback_wrapper_calls(message_data, callback_raises)]
    /\ UNCHANGED <<now, store, redisUp, bigquery, hist, rawEvents, aggTable, run, procs>>

IngestionNext ==
    \/ \E event \in ValidatorEvents, fault \in BOOLEAN : validate_event(event, fault)
    \/ \E events \in UNION {[1..n -> {e \in ValidatorEvents :
                                         /\ DOMAIN e = Schema.required
                                         /\ e.event_type.v = "view"}] : n \in 0..MaxBatch} :
          validate_batch(events)
    \/ \E data \in {json_dumps(e) : e \in ValidatorEvents} \cup {[raw |-> "not json"]},
          callback_raises \in BOOLEAN :
          callback_wrapper(data, callback_raises)

SpecIngestion == Init /\ [][IngestionNext]_vars

\* C23: validate_event raises for no event: it returns None for a conforming event
\* and an error message for every other, and is_valid(event) is true exactly when
\* validate_event(event) is None.
C23_ValidateNeverRaises ==
    last.op = "validate"
        => /\ last.ret = None \/ DOMAIN last.ret = {"str"}
           /\ last.ret = None <=> validator_validate(last.rec, last.args[1]) = "none"
           /\ last.ok <=> last.ret = None

C23_Witness ==
    /\ last.op = "validate"
    /\ last.args[1]
    /\ DOMAIN last.rec = {"video_id", "event_type"}
    /\ last.ret = [str |-> "Unexpected error during validation"]
    /\ ~last.ok

C28_AckXorNack ==
    last.op = "consume"
        => LET calls == last.ret
               Count(c) == Cardinality({i \in DOMAIN calls : calls[i] = c})
               completed == "json" \in DOMAIN last.rec /\ ~last.args[1]
           IN /\ Count("ack") + Count("nack") = 1
              /\ Count("ack") = 1 <=> completed
              /\ \A i \in DOMAIN calls :
                    calls[i] = "ack" => \E j \in 1..(i - 1) : calls[j] = "callback_returned"

C28_Witness ==
    /\ last.op = "consume"
    /\ "json" \in DOMAIN last.rec
    /\ last.args[1]
    /\ last.ret = <<"loads", "callback_raised", "nack">>

----------------------------------------------------------------------------
(* Further claims about the cache, the rollups and the trending list *)

\* the derived ratios of a Metrics Record agree with its counters
RatiosHold(rec) ==
    IF rec.views.num > 0
    THEN /\ SameNumber(rec.engagement_rate, PyFloat(rec.likes.num, rec.views.num))
         /\ SameNumber(rec.avg_watch_time,
                       PyFloat(rec.watch_time.num, rec.watch_time.den * rec.views.num))
    ELSE rec.engagement_rate.num = 0 /\ rec.avg_watch_time.num = 0

\* C26: a set_video_metrics of a record whose ratios agree with its counters, and an
\* increment_metrics on an entry whose record does, leave an entry whose record, as
\* get_video_metrics returns it, still has engagement_rate = likes/views and
\* avg_watch_time = watch_time/views (0 when views = 0).
C26_RatiosSurviveWrites ==
    LET before == get_video_metrics_result(last.pre, TRUE, last.video)
    IN (/\ last.op \in {"set", "incr"}
        /\ last.up
        /\ last.op = "set" => RatiosHold(AsRead(last.rec))
        /\ before # None => RatiosHold(before)
        /\ last.op = "incr" => before # None
        /\ GetNow(last.video) # None)
            => RatiosHold(GetNow(last.video))

RECURSIVE Dedup(_)
\* a table with one copy of every event, in the order of first appearance
Dedup(evs) ==
    IF evs = << >> THEN << >>
    ELSE LET front == Dedup(SubSeq(evs, 1, Len(evs) - 1))
         IN IF evs[Len(evs)] \in Range(front) THEN front ELSE Append(front, evs[Len(evs)])

\* C27: the aggregate a rollup computes for a video over a raw table that holds an
\* event twice has the unique views, likes, total watch time, unique users,
\* countries reached and engagement rate it has over the table with one copy.
C27_DuplicatesTolerated ==
    run.status = "ok"
        => LET start == BucketStart(run.impl, run.ts)
               once == IF run.impl = "hourly"
                       THEN save_aggregations_rows(
                                HourlySelection(Dedup(rawEvents), start, start + HourSecs), start)
                       ELSE save_aggregated_metrics_rows(
                                BatchSelection(Dedup(rawEvents), start, run.ts), run.ts)
           IN \A i \in DOMAIN run.rows :
                 \A f \in {"unique_views", "likes", "total_watch_time", "unique_users",
                           "countries_reached", "engagement_rate"} :
                    SameNumber(run.rows[i].metrics[f], once[i].metrics[f])

\* C29: each entry get_trending_videos returns carries as video_id the id under
\* which its record was stored, so that entries of distinct videos carry distinct ids.
C29_TrendingVideoIds ==
    (last.op = "trending" /\ last.status = "ok")
        => /\ \A i \in DOMAIN last.ret :
                 \E v \in TrendVideos :
                    /\ last.ret[i].video_id = v
                    /\ MetricsKey(v) \in DOMAIN last.pre
                    /\ last.ret[i] = [TrendingEntry(MetricsKey(v), last.pre[MetricsKey(v)].h)
                                         EXCEPT !.video_id = v]
           /\ \A i, j \in DOMAIN last.ret : i # j => last.ret[i].video_id # last.ret[j].video_id

----------------------------------------------------------------------------
(* store_event_batch beside concurrent get_and_delete_batch calls: each pipeline
   buffers its commands in the client and sends them on execute() *)

\* at most MaxStores batches are stored in a run
MaxStores == 2

\* pipeline.expire(key, 300)
batch_ttl == 300

BatchIds == {"b1"}
Takers == {"t1", "t2", "t3"}

\* the lists of events stored: an empty batch and a batch of one event
BatchInputs == {<< >>, <<[id |-> 1]>>}

\* self._get_key(f"batch:{batch_id}")
BatchKey(b) == get_key(<<"batch", b>>)

IdleStorer == [pc |-> "idle", stored |-> << >>]
IdleTaker == [pc |-> "idle", batch |-> "b1", cmds |-> << >>, results |-> << >>,
              ret |-> None, failed |-> FALSE, overlap |-> FALSE, after |-> FALSE]

\* store_event_batch: SET and EXPIRE in one MULTI ... EXEC.  The value carries the
\* number of the store that wrote it (gen), which the program does not see
store_event_batch(events, b) ==
    LET gen == Len(procs["storer"].stored) + 1
    IN
    /\ gen <= MaxStores
    /\ store' = IF redisUp
                THEN Put(store, BatchKey(b),
                         [h |-> json_dumps(events), ttl |-> TRUE, exp |-> now + batch_ttl,
                          gen |-> gen])
                ELSE store
    /\ procs' = [procs EXCEPT !["storer"].stored =
                    Append(@, [batch |-> b, events |-> events, ok |-> redisUp])]
    /\ UNCHANGED <<now, redisUp, bigquery, last, hist, rawEvents, aggTable, run>>

\* GET key and DEL key as the backend runs them: the keyspace left and the reply
batch_command(st, c) ==
    IF c.cmd = "get"
    THEN [st |-> st, reply |-> IF c.key \in DOMAIN st THEN st[c.key] ELSE None]
    ELSE [st |-> Drop(st, c.key), reply |-> IF c.key \in DOMAIN st THEN 1 ELSE 0]

RECURSIVE batch_commands(_, _)
\* a unit of commands run one after the other, with their replies in order
batch_commands(st, cmds) ==
    IF cmds = << >> THEN [st |-> st, replies |-> << >>]
    ELSE LET first == batch_command(st, Head(cmds))
             rest == batch_commands(first.st, Tail(cmds))
         IN [st |-> rest.st, replies |-> <<first.reply>> \o rest.replies]

\* the calls between their first line and the return of execute()
Executing == {q \in Takers : procs[q].pc = "execute"}

\* get_and_delete_batch up to pipeline.delete(key): the commands are buffered.
\* overlap notes the calls in progress at the same time as another
take_buffer(p, b) ==
    /\ procs[p].pc = "idle"
    /\ procs' = [q \in DOMAIN procs |->
                    IF q = p
                    THEN [IdleTaker EXCEPT !.pc = "execute", !.batch = b,
                                           !.overlap = Executing # {},
                                           !.cmds = <<[cmd |-> "get", key |-> BatchKey(b)],
                                                      [cmd |-> "delete", key |-> BatchKey(b)]>>]
                    ELSE IF q \in Executing THEN [procs[q] EXCEPT !.overlap = TRUE]
                    ELSE procs[q]]
    /\ UNCHANGED <<now, store, redisUp, bigquery, last, hist, rawEvents, aggTable, run>>

\* results = pipeline.execute(): the backend runs the next unit of commands; with
\* the last reply in, `if not results[0]: return None`, else json.loads(results[0]).
\* An exception of execute() is caught and None returned
take_execute(p) ==
    LET n == transaction_size(procs[p].cmds)
        unit == batch_commands(store, SubSeq(procs[p].cmds, 1, n))
        rest == SubSeq(procs[p].cmds, n + 1, Len(procs[p].cmds))
        results == procs[p].results \o unit.replies
    IN
    /\ procs[p].pc = "execute"
    /\ IF ~redisUp
       THEN /\ store' = store
            /\ procs' = [procs EXCEPT ![p].pc = "done", ![p].cmds = << >>,
                                      ![p].ret = None, ![p].failed = TRUE]
       ELSE /\ store' = unit.st
            /\ procs' = [procs EXCEPT
                            ![p].cmds = rest,
                            ![p].results = results,
                            ![p].pc = IF rest = << >> THEN "done" ELSE "execute",
                            ![p].after = BatchKey(procs[p].batch) \in DOMAIN unit.st,
                            ![p].ret = IF rest # << >> \/ results[1] = None THEN None
                                       ELSE [events |-> json_loads(results[1].h)]]
    /\ UNCHANGED <<now, redisUp, bigquery, last, hist, rawEvents, aggTable, run>>

\* time passes and the backend drops the batches whose five minutes are over
BatchTick(d) ==
    /\ now < batch_ttl
    /\ now' = now + d
    /\ store' = Purge(store, now + d)
    /\ UNCHANGED <<redisUp, bigquery, last, hist, rawEvents, aggTable, run, procs>>

BatchesInit ==
    /\ now = 0
    /\ store = << >>
    /\ redisUp = TRUE
    /\ bigquery = FALSE
    /\ last = NoCall
    /\ hist = [v \in Videos |-> NoWrite]
    /\ NoRollup
    /\ procs = [p \in Takers \cup {"storer"} |-> IF p = "storer" THEN IdleStorer ELSE IdleTaker]

BatchesNext ==
    \/ \E events \in BatchInputs, b \in BatchIds : store_event_batch(events, b)
    \/ \E p \in Takers, b \in BatchIds : take_buffer(p, b)
    \/ \E p \in Takers : take_execute(p)
    \/ BatchTick(batch_ttl)
    \/ BackendDown
    \/ BackendUp

SpecBatches == BatchesInit /\ [][BatchesNext]_vars

\* the calls that returned events, and the store whose value a call was handed
HandedOut == {p \in Takers : procs[p].pc = "done" /\ procs[p].ret # None}
GenOf(p) == procs[p].results[1].gen

\* C31: whatever the interleaving of concurrent get_and_delete_batch calls, a batch
\* written by one store_event_batch is returned by at most one of them, as the
\* events stored under that id, and every other call returns None; the key is
\* absent once the transaction of a call has run.
C31_BatchHandedOutOnce ==
    /\ \A p, q \in HandedOut : p # q => GenOf(p) # GenOf(q)
    /\ \A p \in HandedOut :
          LET written == procs["storer"].stored[GenOf(p)]
          IN written.ok /\ written.batch = procs[p].batch
                /\ procs[p].ret.events = written.events
    /\ \A p \in Takers : (procs[p].pc = "done" /\ ~procs[p].failed) => ~procs[p].after

C31_Witness ==
    /\ Len(procs["storer"].stored) = 1
    /\ procs["t1"].pc = "done" /\ procs["t2"].pc = "done" /\ procs["t3"].pc = "done"
    /\ \A p \in Takers : procs[p].batch = "b1" /\ ~procs[p].failed /\ procs[p].overlap
    /\ procs["t2"].ret = [events |-> <<[id |-> 1]>>]
    /\ procs["t1"].ret = None /\ procs["t3"].ret = None

====
